---------------------------- MODULE Spec2Model ----------------------------
(***************************************************************************)
(* Trawell backend: the connection-request ledger (routes/matches.js) and  *)
(* the user queries feed / pending / connections (routes/user.js).         *)
(*                                                                         *)
(* The store is two collections: the users and the connection requests.    *)
(* A handler is modelled twice: as one atomic action (requests that do not *)
(* overlap, specification Spec) and as the sequence of its awaits          *)
(* (requests that interleave at every await, specification SpecConc).      *)
(***************************************************************************)
EXTENDS Integers, Sequences, FiniteSets, TLC

VARIABLES
    users,      \* the set of _id values of the User collection
    requests,   \* the ConnectionRequest collection, in insertion order
    calls,      \* the handlers in flight (interleaved execution), per slot
    accounts,   \* the fields of the User documents, by _id
    server      \* the process: its start-up position and its exit code

vars == <<users, requests, calls, accounts, server>>

---------------------------------------------------------------------------
(* Bounds of the model *)

MaxUsers == 3
MaxRequests == 2
MaxCalls == 2

UserIds == 1..MaxUsers
RequestIds == 1..MaxRequests
Slots == 1..MaxCalls

---------------------------------------------------------------------------
(* Program constants *)

DefaultPage == 1
DefaultLimit == 10
MaxLimit == 50

SendStatuses == {"like", "pass"}
ReviewStatuses == {"accept", "reject"}
AllStatuses == {"like", "pass", "accept", "reject"}
\* the values a caller may put in the :status path parameter
StatusParams == AllStatuses

NoRecord == [id |-> 0, fromUserId |-> 0, toUserId |-> 0, status |-> "none"]

---------------------------------------------------------------------------
(* The response of a handler *)

Response(op, actor, arg, status, code, error, data, list, page, limit) ==
    [op |-> op, actor |-> actor, arg |-> arg, status |-> status,
     code |-> code, error |-> error, data |-> data, list |-> list,
     page |-> page, limit |-> limit, total |-> Len(list)]

Outcome(reqs, r) == [requests |-> reqs, resp |-> r]

---------------------------------------------------------------------------
(* Store queries *)


\* a lookup that finds a document for every id
FindUserByIdAny(usrs, id) == id

\* User.findById(id): 0 stands for null
FindUserById(usrs, id) == IF id \in usrs THEN id ELSE 0


\* a lookup that sees only the direction fromUserId -> toUserId
MatchesPairOneWay(r, fromUserId, toUserId) ==
    r.fromUserId = fromUserId /\ r.toUserId = toUserId

\* ConnectionRequest.findOne({$or: [{from, to}, {from: to, to: from}]})
MatchesPair(r, fromUserId, toUserId) ==
    \/ r.fromUserId = fromUserId /\ r.toUserId = toUserId
    \/ r.fromUserId = toUserId /\ r.toUserId = fromUserId


\* a lookup that counts only a pending record as a duplicate
ExistingPendingRequest(reqs, fromUserId, toUserId) ==
    LET hits == {i \in 1..Len(reqs) :
                    /\ MatchesPair(reqs[i], fromUserId, toUserId)
                    /\ reqs[i].status = "like"}
    IN  IF hits = {} THEN NoRecord
        ELSE reqs[CHOOSE i \in hits : \A j \in hits : i <= j]

ExistingRequest(reqs, fromUserId, toUserId) ==
    LET hits == {i \in 1..Len(reqs) : MatchesPair(reqs[i], fromUserId, toUserId)}
    IN  IF hits = {} THEN NoRecord
        ELSE reqs[CHOOSE i \in hits : \A j \in hits : i <= j]


\* a lookup that does not ask for the recipient
MatchesReviewAnyUser(r, requestId, loggedUser) ==
    /\ r.id = requestId
    /\ r.status = "like"

\* a lookup that takes a rejected record as still open
MatchesReviewOrRejected(r, requestId, loggedUser) ==
    /\ r.id = requestId
    /\ r.toUserId = loggedUser
    /\ r.status \in {"like", "reject"}

\* ConnectionRequest.findOne({_id, toUserId, status: "like"})
MatchesReview(r, requestId, loggedUser) ==
    /\ r.id = requestId
    /\ r.toUserId = loggedUser
    /\ r.status = "like"

ReviewableRequest(reqs, requestId, loggedUser) ==
    LET hits == {i \in 1..Len(reqs) : MatchesReview(reqs[i], requestId, loggedUser)}
    IN  IF hits = {} THEN NoRecord
        ELSE reqs[CHOOSE i \in hits : \A j \in hits : i <= j]


\* a schema with no validation of the two ends
CanSendAny(fromUserId, toUserId) == TRUE

\* the schema validation that save() of a new ConnectionRequest runs: the
\* two ends differ (models/connectionRequest.js, taken from the data model of
\* the specification: fromUserId # toUserId)
CanSend(fromUserId, toUserId) == fromUserId # toUserId


\* an insert that stores the two ends the wrong way round
InsertRequestSwapped(reqs, fromUserId, toUserId, status) ==
    Append(reqs, [id |-> Len(reqs) + 1, fromUserId |-> toUserId,
                  toUserId |-> fromUserId, status |-> status])

\* new ConnectionRequest({fromUserId, toUserId, status}).save(): the insert
InsertRequest(reqs, fromUserId, toUserId, status) ==
    Append(reqs, [id |-> Len(reqs) + 1, fromUserId |-> fromUserId,
                  toUserId |-> toUserId, status |-> status])


\* an update that writes the status to every record of the collection
SaveStatusAll(reqs, id, status) ==
    [i \in 1..Len(reqs) |-> [reqs[i] EXCEPT !.status = status]]

\* an update that also hands the record back to its sender
SaveStatusRedirect(reqs, id, status) ==
    [i \in 1..Len(reqs) |->
        IF reqs[i].id = id
        THEN [reqs[i] EXCEPT !.status = status, !.toUserId = reqs[i].fromUserId]
        ELSE reqs[i]]

\* connectionRequest.status = status; connectionRequest.save(): the update
\* of the loaded document, keyed by its _id alone
SaveStatus(reqs, id, status) ==
    [i \in 1..Len(reqs) |->
        IF reqs[i].id = id THEN [reqs[i] EXCEPT !.status = status] ELSE reqs[i]]


---------------------------------------------------------------------------
(* POST /request/send/:status/:toUserId, run without interruption *)

SendInvalidStatus == "Invalid status. Only 'like' or 'pass' are allowed"

\* a handler that looks for the pair's record before it looks for the target
SendHandlerDuplicateFirst(reqs, usrs, fromUserId, toUserId, status) ==
    IF status \notin SendStatuses
    THEN Outcome(reqs, Response("send", fromUserId, toUserId, status, 400,
                                SendInvalidStatus, NoRecord, <<>>, 0, 0))
    ELSE IF ExistingRequest(reqs, fromUserId, toUserId) # NoRecord
    THEN Outcome(reqs, Response("send", fromUserId, toUserId, status, 400,
                                "DUPLICATE_REQUEST", NoRecord, <<>>, 0, 0))
    ELSE IF FindUserById(usrs, toUserId) = 0
    THEN Outcome(reqs, Response("send", fromUserId, toUserId, status, 404,
                                "USER_NOT_FOUND", NoRecord, <<>>, 0, 0))
    ELSE IF ~CanSend(fromUserId, toUserId)
    THEN Outcome(reqs, Response("send", fromUserId, toUserId, status, 400,
                                "VALIDATION_ERROR", NoRecord, <<>>, 0, 0))
    ELSE LET saved == InsertRequest(reqs, fromUserId, toUserId, status)
         IN  Outcome(saved, Response("send", fromUserId, toUserId, status, 201,
                                     "none", saved[Len(saved)], <<>>, 0, 0))

SendHandler(reqs, usrs, fromUserId, toUserId, status) ==
    IF status \notin SendStatuses
    THEN \* thrown, caught by the handler's catch
         Outcome(reqs, Response("send", fromUserId, toUserId, status, 400,
                                SendInvalidStatus, NoRecord, <<>>, 0, 0))
    ELSE IF FindUserById(usrs, toUserId) = 0
    THEN Outcome(reqs, Response("send", fromUserId, toUserId, status, 404,
                                "USER_NOT_FOUND", NoRecord, <<>>, 0, 0))
    ELSE IF ExistingRequest(reqs, fromUserId, toUserId) # NoRecord
    THEN Outcome(reqs, Response("send", fromUserId, toUserId, status, 400,
                                "DUPLICATE_REQUEST", NoRecord, <<>>, 0, 0))
    ELSE IF ~CanSend(fromUserId, toUserId)
    THEN \* save() rejects the document; caught by the handler's catch
         Outcome(reqs, Response("send", fromUserId, toUserId, status, 400,
                                "VALIDATION_ERROR", NoRecord, <<>>, 0, 0))
    ELSE LET saved == InsertRequest(reqs, fromUserId, toUserId, status)
         IN  Outcome(saved, Response("send", fromUserId, toUserId, status, 201,
                                     "none", saved[Len(saved)], <<>>, 0, 0))

---------------------------------------------------------------------------
(* POST /request/review/:status/:requestId, run without interruption *)


\* a check that lets a like through as a decision
ReviewAllowedLike(status) == status \in {"accept", "reject", "like"}

\* the check of the status parameter of review:
\* isAllowedStatus.includes(status)
ReviewAllowed(status) == status \in ReviewStatuses


\* an answer that tells a record of another user or a decided record from
\* an id that names no record
RequestNotFoundTelling(reqs, loggedUser, status, requestId) ==
    Response("review", loggedUser, requestId, status, 400,
             IF \E i \in 1..Len(reqs) : reqs[i].id = requestId
             THEN "REQUEST_NOT_REVIEWABLE" ELSE "REQUEST_NOT_FOUND",
             NoRecord, <<>>, 0, 0)

\* the answer when findOne returned null
RequestNotFound(reqs, loggedUser, status, requestId) ==
    Response("review", loggedUser, requestId, status, 400, "REQUEST_NOT_FOUND",
             NoRecord, <<>>, 0, 0)

ReviewHandler(reqs, usrs, loggedUser, status, requestId) ==
    IF ~ReviewAllowed(status)
    THEN Outcome(reqs, Response("review", loggedUser, requestId, status, 400,
                                "INVALID_STATUS", NoRecord, <<>>, 0, 0))
    ELSE LET connectionRequest == ReviewableRequest(reqs, requestId, loggedUser)
         IN  IF connectionRequest = NoRecord
             THEN Outcome(reqs, RequestNotFound(reqs, loggedUser, status,
                                                requestId))
             ELSE LET fromUser == FindUserById(usrs, connectionRequest.fromUserId)
                      saved == SaveStatus(reqs, connectionRequest.id, status)
                  IN  IF fromUser = 0
                      THEN \* fromUser.firstName throws after the save
                           Outcome(saved, Response("review", loggedUser, requestId,
                                                   status, 400, "TypeError",
                                                   NoRecord, <<>>, 0, 0))
                      ELSE Outcome(saved, Response("review", loggedUser, requestId,
                                                   status, 200, "none",
                                                   saved[connectionRequest.id],
                                                   <<>>, 0, 0))

---------------------------------------------------------------------------
(* The user queries *)

\* the documents of the User collection with an _id in S, as the collection
\* holds them: in _id (creation) order
SortedIds(S) ==
    SelectSeq([i \in 1..MaxUsers |-> i], LAMBDA u : u \in S)

\* find() without sort(): the store returns the rows in an order of its own
\* choice, one choice per query.  The model lets it choose between two of
\* these orders, the collection scanned forward and scanned backward.
NaturalOrders == {"forward", "backward"}

Reversed(rows) == [i \in 1..Len(rows) |-> rows[Len(rows) + 1 - i]]

Unsorted(rows, order) == IF order = "forward" THEN rows ELSE Reversed(rows)

\* a query-string value: absent, a number, or text that is not a number
QueryValue(kind, n) == [kind |-> kind, n |-> n]

\* parseInt(req.query.x): NaN unless the value is a number
ParseInt(q) == IF q.kind = "int" THEN [nan |-> FALSE, n |-> q.n]
               ELSE [nan |-> TRUE, n |-> 0]

\* parseInt(...) || dflt: NaN and 0 are falsy
OrDefault(p, dflt) == IF p.nan \/ p.n = 0 THEN dflt ELSE p.n

FeedPage(qpage) == OrDefault(ParseInt(qpage), DefaultPage)

FeedLimit(qlimit) ==
    LET limit == OrDefault(ParseInt(qlimit), DefaultLimit)
    IN  IF limit > MaxLimit THEN MaxLimit ELSE limit

FeedSkip(qpage, qlimit) == (FeedPage(qpage) - 1) * FeedLimit(qlimit)

\* a query that finds only the records the user sent
InvolvesSender(r, u) == r.fromUserId = u

\* ConnectionRequest.find({$or: [{fromUserId: u}, {toUserId: u}]})
Involves(r, u) == r.fromUserId = u \/ r.toUserId = u


\* an exclusion set that holds only the recipients
HideRecipientsOnly(connectionRequests) ==
    {connectionRequests[i].toUserId : i \in 1..Len(connectionRequests)}

\* an exclusion set that holds only the senders
HideSendersOnly(connectionRequests) ==
    {connectionRequests[i].fromUserId : i \in 1..Len(connectionRequests)}

\* hideUserFromFeed: both ends of every record that involves the caller
HideUserFromFeed(connectionRequests) ==
    UNION {{connectionRequests[i].fromUserId, connectionRequests[i].toUserId} :
              i \in 1..Len(connectionRequests)}

\* a query without the $ne condition on the caller
FeedCandidatesAnyUser(usrs, loggedUser, hide, order) ==
    Unsorted(SortedIds({u \in usrs : u \notin hide}), order)

\* User.find({_id: {$ne: loggedUser}, _id: {$nin: hide}}), with no sort()
FeedCandidates(usrs, loggedUser, hide, order) ==
    Unsorted(SortedIds({u \in usrs : u # loggedUser /\ u \notin hide}), order)

Abs(n) == IF n < 0 THEN -n ELSE n

Min(a, b) == IF a < b THEN a ELSE b

\* .skip(skip).limit(limit): the store takes a negative limit as its absolute
\* value
Slice(cands, skip, limit) ==
    SubSeq(cands, skip + 1, Min(Len(cands), skip + Abs(limit)))

\* the second query of the feed, given the records the first one returned
FeedFromRecords(usrs, connectionRequests, loggedUser, qpage, qlimit, order) ==
    LET page == FeedPage(qpage)
        limit == FeedLimit(qlimit)
        skip == FeedSkip(qpage, qlimit)
        hide == HideUserFromFeed(connectionRequests)
    IN  IF skip < 0
        THEN \* the store rejects a negative skip; caught by the handler's catch
             Response("feed", loggedUser, 0, "none", 500, "BadValue", NoRecord,
                      <<>>, 0, 0)
        ELSE Response("feed", loggedUser, 0, "none", 200, "none", NoRecord,
                      Slice(FeedCandidates(usrs, loggedUser, hide, order),
                            skip, limit),
                      page, limit)

\* GET /user/feed; the rows of the first find() go into a Set, so their
\* order has no part in the answer
FeedHandler(reqs, usrs, loggedUser, qpage, qlimit, order) ==
    FeedFromRecords(usrs, SelectSeq(reqs, LAMBDA r : Involves(r, loggedUser)),
                    loggedUser, qpage, qlimit, order)


\* a filter that takes the pending records of either end
IsPendingEitherEnd(r, u) ==
    (r.toUserId = u \/ r.fromUserId = u) /\ r.status = "like"

\* ConnectionRequest.find({toUserId: loggedUser._id, status: "like"})
IsPending(r, u) == r.toUserId = u /\ r.status = "like"

\* GET /user/connections/pending: the ids of the pending records
RecordIds(rows) == [i \in 1..Len(rows) |-> rows[i].id]

PendingHandler(reqs, usrs, loggedUser, order) ==
    Response("pending", loggedUser, 0, "none", 200, "none", NoRecord,
             RecordIds(Unsorted(SelectSeq(reqs, LAMBDA r : IsPending(r, loggedUser)),
                                order)),
             0, 0)


\* a filter that sees only the accepted requests the caller sent
IsAcceptedSent(r, u) == r.fromUserId = u /\ r.status = "accept"

IsAccepted(r, u) ==
    \/ r.fromUserId = u /\ r.status = "accept"
    \/ r.toUserId = u /\ r.status = "accept"


\* a projection that always returns the sender of the record
OtherPersonSender(row, loggedUser) == row.fromUserId

\* row => row.fromUserId._id === loggedUser._id ? row.toUserId : row.fromUserId
OtherPerson(row, loggedUser) ==
    IF row.fromUserId = loggedUser THEN row.toUserId ELSE row.fromUserId

OtherPersons(rows, loggedUser) ==
    [i \in 1..Len(rows) |-> OtherPerson(rows[i], loggedUser)]

\* GET /user/connections
ConnectionsHandler(reqs, usrs, loggedUser, order) ==
    Response("connections", loggedUser, 0, "none", 200, "none", NoRecord,
             OtherPersons(Unsorted(SelectSeq(reqs,
                                             LAMBDA r : IsAccepted(r, loggedUser)),
                                   order),
                          loggedUser),
             0, 0)

---------------------------------------------------------------------------
(* The user data of the responses.  The handlers above answer with the _id  *)
(* of each user; the documents the responses carry in their place are       *)
(* these.                                                                   *)

\* the paths of a User document: those of the schema, _id and __v, and the
\* two of timestamps: true
UserSchemaFields ==
    {"_id", "firstName", "lastName", "emailId", "password", "age", "gender",
     "image", "about", "createdAt", "updatedAt", "__v"}

\* the stored document of a user; each path holds a value of its own
UserDocument(u) == [f \in UserSchemaFields |-> <<f, u>>]

UserSaveData == {"firstName", "lastName", "age", "gender", "image", "about"}

PendingPopulate ==
    {"_id", "firstName", "lastName", "age", "gender", "image", "about"}

ReviewSelect == {"firstName", "lastName"}

\* a query that returns the document as it is stored
SelectWhole(doc, fields) == doc

\* .select(fields) and .populate(path, fields): the paths named, and _id,
\* which an inclusive projection keeps
Select(doc, fields) ==
    [f \in (fields \cap DOMAIN doc) \cup {"_id"} |-> doc[f]]

\* {firstName: x.firstName, lastName: x.lastName}
Names(doc) == [f \in {"firstName", "lastName"} |-> doc[f]]

\* the record of the store a response names by its id
RecordById(reqs, id) == CHOOSE r \in {reqs[i] : i \in 1..Len(reqs)} : r.id = id

\* the user data in a response, given the store it was answered from
UserData(reqs, resp) ==
    IF resp.op = "feed" /\ resp.code = 200
    THEN {Select(UserDocument(resp.list[i]), UserSaveData) :
             i \in 1..Len(resp.list)}
    ELSE IF resp.op = "pending" /\ resp.code = 200
    THEN {Select(UserDocument(RecordById(reqs, resp.list[i]).fromUserId),
                 PendingPopulate) : i \in 1..Len(resp.list)}
    ELSE IF resp.op = "connections" /\ resp.code = 200
    THEN {Select(UserDocument(resp.list[i]), UserSaveData) :
             i \in 1..Len(resp.list)}
    ELSE IF resp.op = "send" /\ resp.code = 201
    THEN {Names(UserDocument(resp.actor)), Names(UserDocument(resp.arg))}
    ELSE IF resp.op = "review" /\ resp.code = 200
    THEN {Names(Select(UserDocument(resp.data.fromUserId), ReviewSelect)),
          Names(UserDocument(resp.actor))}
    ELSE {}

---------------------------------------------------------------------------
(* The User documents and the two routes that change them.  A string whose *)
(* characters matter (a password, a first name) is the tuple of its        *)
(* characters.                                                             *)

\* !body[key]: the key is absent or its value is the empty string
Falsy(body, key, empty) == key \notin DOMAIN body \/ body[key] = empty

LowerLetters == {"a", "d", "l", "o", "r", "s", "w"}

UpperLetters == {"A", "N", "P"}

Digits == {"0", "1"}

Symbols == {"#"}

CountIn(str, class) == Cardinality({i \in 1..Len(str) : str[i] \in class})

\* validator.isStrongPassword(value): at least 8 characters, a lower-case
\* letter, an upper-case letter, a digit and a symbol
IsStrongPassword(str) ==
    /\ Len(str) >= 8
    /\ CountIn(str, LowerLetters) >= 1
    /\ CountIn(str, UpperLetters) >= 1
    /\ CountIn(str, Digits) >= 1
    /\ CountIn(str, Symbols) >= 1

\* bcrypt.hash(password, 10): the stored value is not the password
Hash(str) == [bcrypt |-> str]

\* a comparison that accepts whatever is typed
ValidatePasswordAny(doc, passwordByUser) == TRUE

\* userSchema.methods.validatePassword: bcrypt.compare(typed, stored)
ValidatePassword(doc, passwordByUser) == doc.password = Hash(passwordByUser)

\* validator.isEmail, for addresses kept as local part and domain
IsEmail(mail) == mail.local # "" /\ mail.domain # ""

\* String.prototype.toLowerCase, on the gender values of the model
ToLowerCase(str) ==
    CASE str = "Male" -> "male"
      [] str = "FEMALE" -> "female"
      [] OTHER -> str

Genders == {"male", "female", "others"}

DefaultImage == "https://www.iibsonline.com/public/testimonial/testimonial_image_full/183.png"

\* the setters of the schema: gender is stored in lower case
Cast(key, value) == IF key = "gender" THEN ToLowerCase(value) ELSE value

\* the validators of the schema, run by save() on the paths that changed
PathValid(key, value) ==
    CASE key = "firstName" -> Len(value) >= 4 /\ Len(value) <= 40
      [] key = "emailId" -> IsEmail(value)
      [] key = "password" -> IsStrongPassword(value)
      [] key = "age" -> value >= 18 /\ value <= 120
      [] key = "gender" -> value \in Genders
      [] OTHER -> TRUE

\* pre("save"): the password is hashed when it was modified
PreSave(doc, modified) ==
    IF "password" \in modified
    THEN [doc EXCEPT !.password = Hash(doc.password)]
    ELSE doc

\* doc.save(): validation of the modified paths, the pre-save hook, the write
SaveUser(accts, id, doc, modified) ==
    IF \A key \in modified : PathValid(key, doc[key])
    THEN [ok |-> TRUE, accounts |-> [accts EXCEPT ![id] = PreSave(doc, modified)]]
    ELSE [ok |-> FALSE, accounts |-> accts]

\* what a route answers about a user document
AppResponse(op, actor, code, error, user) ==
    [op |-> op, actor |-> actor, code |-> code, error |-> error, user |-> user]

AppOutcome(accts, r) == [accounts |-> accts, resp |-> r]

\* POST /signup with the body the model signs every user up with
SignupPassword == <<"P", "a", "s", "s", "#", "0", "w", "d">>

NewUser(id) ==
    [_id |-> id,
     firstName |-> <<"A", "s", "h", "a">>,
     lastName |-> "Rao",
     emailId |-> [local |-> "user", tag |-> id, domain |-> "trawell.io"],
     password |-> SignupPassword,
     age |-> 25,
     gender |-> "male",
     image |-> DefaultImage,
     about |-> ""]

SignupHandler(accts) ==
    LET id == Len(accts) + 1
    IN  SaveUser(Append(accts, NewUser(id)), id, NewUser(id), {"password"}).accounts

\* validUpdateData(req)
AllowedUpdates == {"firstName", "lastName", "gender", "image", "age", "about"}

\* a check that lets every key through
IsEditAllowedAny(body) == TRUE

\* Object.keys(user).every((key) => ALLOWED_UPDATES.includes(key))
IsEditAllowed(body) == DOMAIN body \subseteq AllowedUpdates

\* the result of validUpdateData: what it throws, or what it returns
ValidUpdateData(body) ==
    LET Result(threw, value) == [threw |-> threw, value |-> value]
    IN  IF Falsy(body, "firstName", <<>>)
        THEN Result("First name is required", FALSE)
        ELSE IF Falsy(body, "lastName", "")
        THEN Result("Last name is required", FALSE)
        ELSE IF Falsy(body, "gender", "")
        THEN Result("Gender is required", FALSE)
        ELSE IF ToLowerCase(body.gender) \notin {"male", "female", "others"}
        THEN Result("Gender must be one of: male, female, or others", FALSE)
        ELSE IF "age" \in DOMAIN body /\ (body.age < 18 \/ body.age > 80)
        THEN Result("Age must be between 18 and 80 years", FALSE)
        ELSE Result("none", IsEditAllowed(body))

\* Object.keys(updateUser).forEach((key) => loggedUser[key] = updateUser[key])
Assign(doc, body) ==
    [key \in DOMAIN doc |->
        IF key \in DOMAIN body THEN Cast(key, body[key]) ELSE doc[key]]

\* the paths the assignment changed
ModifiedPaths(doc, body) ==
    {key \in DOMAIN body \cap DOMAIN doc :
        key = "password" \/ Cast(key, body[key]) # doc[key]}

\* PATCH /user/:id
ProfileHandler(accts, loggedUser, body) ==
    LET valid == ValidUpdateData(body)
    IN  IF valid.threw # "none"
        THEN AppOutcome(accts, AppResponse("profile", loggedUser, 400,
                                           valid.threw, <<>>))
        ELSE IF ~valid.value
        THEN AppOutcome(accts, AppResponse("profile", loggedUser, 400,
                                           "Invalid update data provided", <<>>))
        ELSE LET doc == Assign(accts[loggedUser], body)
                 saved == SaveUser(accts, loggedUser, doc,
                                   ModifiedPaths(accts[loggedUser], body))
             IN  IF saved.ok
                 THEN AppOutcome(saved.accounts,
                                 AppResponse("profile", loggedUser, 200, "none",
                                             saved.accounts[loggedUser]))
                 ELSE AppOutcome(accts, AppResponse("profile", loggedUser, 400,
                                                    "ValidationError", <<>>))

\* PATCH /user/password
PasswordHandler(accts, loggedUser, currentPassword, newPassword, confirmPassword) ==
    LET Failed(msg) ==
            AppOutcome(accts, AppResponse("password", loggedUser, 400, msg, <<>>))
    IN  IF currentPassword = <<>> \/ newPassword = <<>> \/ confirmPassword = <<>>
        THEN Failed("All fields are required")
        ELSE IF ~ValidatePassword(accts[loggedUser], currentPassword)
        THEN Failed("Current password is incorrect")
        ELSE IF newPassword # confirmPassword
        THEN Failed("New password and confirmation password must match")
        ELSE IF ~IsStrongPassword(newPassword)
        THEN Failed("New password must be strong")
        ELSE LET doc == [accts[loggedUser] EXCEPT !.password = newPassword]
                 saved == SaveUser(accts, loggedUser, doc, {"password"})
             IN  IF saved.ok
                 THEN AppOutcome(saved.accounts,
                                 AppResponse("password", loggedUser, 200, "none",
                                    [key \in {"firstName", "lastName", "emailId"}
                                        |-> doc[key]]))
                 ELSE Failed("ValidationError")

---------------------------------------------------------------------------
(* The requests of the model *)

\* the values of ?page= and ?limit= the pagination arithmetic is tried on
PageQueries == {QueryValue("absent", 0), QueryValue("text", 0),
                QueryValue("int", 0), QueryValue("int", 1),
                QueryValue("int", 2), QueryValue("int", 3),
                QueryValue("int", -1)}

LimitQueries == {QueryValue("absent", 0), QueryValue("text", 0),
                 QueryValue("int", 0), QueryValue("int", 1),
                 QueryValue("int", 2), QueryValue("int", -1),
                 QueryValue("int", 50), QueryValue("int", 51),
                 QueryValue("int", 100)}

\* the values of ?page= and ?limit= the feed requests of the model carry
FeedPages == {QueryValue("absent", 0), QueryValue("int", 2)}

FeedLimits == {QueryValue("absent", 0), QueryValue("int", 1),
               QueryValue("int", -1)}

---------------------------------------------------------------------------
(* Actions: one per route, the handler run without interruption.  The      *)
(* response goes to the caller and is no part of the state: what a handler *)
(* answers in a state is the value of its operator there.                  *)

\* a handler slot that runs nothing
Idle == [op |-> "idle", pc |-> "idle", actor |-> 0, arg |-> 0, status |-> "none",
         doc |-> NoRecord, fromUser |-> 0, code |-> 0, error |-> "none",
         qpage |-> QueryValue("absent", 0), qlimit |-> QueryValue("absent", 0),
         rows |-> <<>>, list |-> <<>>]

\* the process once connectDB() has resolved and app.listen() has run: the
\* routes are served from here on
Listening == [phase |-> "listening", uri |-> TRUE, db |-> "connected", code |-> 0]

\* The ledger is followed from the moment the server listens, with no user
\* signed up; SpecApp follows the process from its start.
Init ==
    /\ users = {}
    /\ requests = <<>>
    /\ calls = [s \in Slots |-> Idle]
    /\ accounts = <<>>
    /\ server = Listening

\* POST /signup: a new user document is saved
Signup ==
    /\ server.phase = "listening"
    /\ Cardinality(users) < MaxUsers
    /\ users' = users \cup {Cardinality(users) + 1}
    /\ accounts' = SignupHandler(accounts)
    /\ UNCHANGED <<requests, calls>>
    /\ UNCHANGED server

Send(actor, toUserId, status) ==
    /\ actor \in users
    /\ Len(requests) < MaxRequests
    /\ requests' = SendHandler(requests, users, actor, toUserId, status).requests
    /\ UNCHANGED <<users, calls>>
    /\ UNCHANGED <<accounts, server>>

Review(actor, status, requestId) ==
    /\ actor \in users
    /\ requests' = ReviewHandler(requests, users, actor, status, requestId).requests
    /\ UNCHANGED <<users, calls>>
    /\ UNCHANGED <<accounts, server>>

\* the three queries write nothing: whatever the query string and whatever
\* the order the store returns the rows in, the step is the same one, so the
\* answer is taken as a value of the state the step starts in
FeedAnswered(actor) ==
    \E qpage \in FeedPages, qlimit \in FeedLimits, order \in NaturalOrders :
        FeedHandler(requests, users, actor, qpage, qlimit, order).code
           \in {200, 500}

PendingAnswered(actor) ==
    \E order \in NaturalOrders :
        PendingHandler(requests, users, actor, order).code = 200

ConnectionsAnswered(actor) ==
    \E order \in NaturalOrders :
        ConnectionsHandler(requests, users, actor, order).code = 200

\* a feed that marks what it has shown as passed over
GetFeedWriting(actor) ==
    /\ actor \in users
    /\ FeedAnswered(actor) = TRUE
    /\ requests' = [i \in 1..Len(requests) |->
                       IF requests[i].fromUserId = actor
                       THEN [requests[i] EXCEPT !.status = "pass"]
                       ELSE requests[i]]
    /\ UNCHANGED <<users, calls>>
    /\ UNCHANGED <<accounts, server>>

GetFeed(actor) ==
    /\ actor \in users
    /\ FeedAnswered(actor) = TRUE
    /\ UNCHANGED <<users, requests, calls>>
    /\ UNCHANGED <<accounts, server>>

GetPending(actor) ==
    /\ actor \in users
    /\ PendingAnswered(actor) = TRUE
    /\ UNCHANGED <<users, requests, calls>>
    /\ UNCHANGED <<accounts, server>>

GetConnections(actor) ==
    /\ actor \in users
    /\ ConnectionsAnswered(actor) = TRUE
    /\ UNCHANGED <<users, requests, calls>>
    /\ UNCHANGED <<accounts, server>>

SendSome == \E a \in UserIds, t \in UserIds, s \in StatusParams : Send(a, t, s)

ReviewSome ==
    \E a \in UserIds, s \in StatusParams, r \in RequestIds : Review(a, s, r)

GetFeedSome == \E a \in UserIds : GetFeed(a)

GetPendingSome == \E a \in UserIds : GetPending(a)

GetConnectionsSome == \E a \in UserIds : GetConnections(a)

Next ==
    \/ Signup
    \/ SendSome
    \/ ReviewSome
    \/ GetFeedSome
    \/ GetPendingSome
    \/ GetConnectionsSome

Spec == Init /\ [][Next]_vars

---------------------------------------------------------------------------
(* Interleaved execution: a handler gives way to the other handlers at     *)
(* every await.  A slot holds one handler in flight, its position and its  *)
(* local variables; a finished handler keeps its response until the slot   *)
(* is released.                                                            *)

Started(op, actor, arg, status, pc) ==
    [Idle EXCEPT !.op = op, !.pc = pc, !.actor = actor, !.arg = arg,
                 !.status = status]

Answered(c, code, error, doc) ==
    [c EXCEPT !.pc = "done", !.code = code, !.error = error, !.doc = doc]

\* send: the status check runs before the first await
SendBegin(slot, actor, toUserId, status) ==
    /\ calls[slot].pc = "idle"
    /\ \A t \in Slots : t < slot => calls[t].pc # "idle"
    /\ actor \in users
    /\ calls' = [calls EXCEPT ![slot] =
          IF status \notin SendStatuses
          THEN Answered(Started("send", actor, toUserId, status, "done"),
                        400, SendInvalidStatus, NoRecord)
          ELSE Started("send", actor, toUserId, status, "findToUser")]
    /\ UNCHANGED <<users, requests>>
    /\ UNCHANGED <<accounts, server>>

\* a handler that returns without a response when the target is missing
SendFindToUserSilent(slot) ==
    /\ calls[slot].op = "send"
    /\ calls[slot].pc = "findToUser"
    /\ calls' = [calls EXCEPT ![slot] =
          IF FindUserById(users, calls[slot].arg) = 0
          THEN [calls[slot] EXCEPT !.pc = "returned"]
          ELSE [calls[slot] EXCEPT !.pc = "findExisting"]]
    /\ UNCHANGED <<users, requests>>
    /\ UNCHANGED <<accounts, server>>

\* await User.findById(toUserId)
SendFindToUser(slot) ==
    /\ calls[slot].op = "send"
    /\ calls[slot].pc = "findToUser"
    /\ calls' = [calls EXCEPT ![slot] =
          IF FindUserById(users, calls[slot].arg) = 0
          THEN Answered(calls[slot], 404, "USER_NOT_FOUND", NoRecord)
          ELSE [calls[slot] EXCEPT !.pc = "findExisting"]]
    /\ UNCHANGED <<users, requests>>
    /\ UNCHANGED <<accounts, server>>

\* await ConnectionRequest.findOne({$or: ...})
SendFindExisting(slot) ==
    /\ calls[slot].op = "send"
    /\ calls[slot].pc = "findExisting"
    /\ calls' = [calls EXCEPT ![slot] =
          IF ExistingRequest(requests, calls[slot].actor, calls[slot].arg) # NoRecord
          THEN Answered(calls[slot], 400, "DUPLICATE_REQUEST", NoRecord)
          ELSE [calls[slot] EXCEPT !.pc = "save"]]
    /\ UNCHANGED users
    /\ UNCHANGED requests
    /\ UNCHANGED <<accounts, server>>

\* await connectionRequest.save(), then the response
SendSave(slot) ==
    /\ calls[slot].op = "send"
    /\ calls[slot].pc = "save"
    /\ Len(requests) < MaxRequests
    /\ LET c == calls[slot]
           saved == InsertRequest(requests, c.actor, c.arg, c.status)
       IN  IF ~CanSend(c.actor, c.arg)
           THEN /\ calls' = [calls EXCEPT ![slot] =
                               Answered(c, 400, "VALIDATION_ERROR", NoRecord)]
                /\ requests' = requests
           ELSE /\ calls' = [calls EXCEPT ![slot] =
                               Answered(c, 201, "none", saved[Len(saved)])]
                /\ requests' = saved
    /\ UNCHANGED users
    /\ UNCHANGED <<accounts, server>>

\* review: the status check runs before the first await
ReviewBegin(slot, actor, status, requestId) ==
    /\ calls[slot].pc = "idle"
    /\ \A t \in Slots : t < slot => calls[t].pc # "idle"
    /\ actor \in users
    /\ calls' = [calls EXCEPT ![slot] =
          IF ~ReviewAllowed(status)
          THEN Answered(Started("review", actor, requestId, status, "done"),
                        400, "INVALID_STATUS", NoRecord)
          ELSE Started("review", actor, requestId, status, "findRequest")]
    /\ UNCHANGED <<users, requests>>
    /\ UNCHANGED <<accounts, server>>

\* await ConnectionRequest.findOne({_id, toUserId, status: "like"})
ReviewFindRequest(slot) ==
    /\ calls[slot].op = "review"
    /\ calls[slot].pc = "findRequest"
    /\ LET c == calls[slot]
           connectionRequest == ReviewableRequest(requests, c.arg, c.actor)
       IN  calls' = [calls EXCEPT ![slot] =
              IF connectionRequest = NoRecord
              THEN Answered(c, 400, "REQUEST_NOT_FOUND", NoRecord)
              ELSE [c EXCEPT !.pc = "findFromUser", !.doc = connectionRequest]]
    /\ UNCHANGED <<users, requests>>
    /\ UNCHANGED <<accounts, server>>

\* await User.findById(connectionRequest.fromUserId)
ReviewFindFromUser(slot) ==
    /\ calls[slot].op = "review"
    /\ calls[slot].pc = "findFromUser"
    /\ calls' = [calls EXCEPT ![slot] =
          [calls[slot] EXCEPT !.pc = "save",
              !.fromUser = FindUserById(users, calls[slot].doc.fromUserId)]]
    /\ UNCHANGED <<users, requests>>
    /\ UNCHANGED <<accounts, server>>

\* connectionRequest.status = status; await connectionRequest.save(); then
\* the response
ReviewSave(slot) ==
    /\ calls[slot].op = "review"
    /\ calls[slot].pc = "save"
    /\ LET c == calls[slot]
           saved == SaveStatus(requests, c.doc.id, c.status)
       IN  /\ requests' = saved
           /\ calls' = [calls EXCEPT ![slot] =
                 IF c.fromUser = 0
                 THEN Answered(c, 400, "TypeError", NoRecord)
                 ELSE Answered(c, 200, "none", [c.doc EXCEPT !.status = c.status])]
    /\ UNCHANGED users
    /\ UNCHANGED <<accounts, server>>

\* the response has gone out: the slot takes the next request
Release(slot) ==
    /\ calls[slot].pc = "done"
    /\ \A t \in Slots : t > slot => calls[t].pc = "idle"
    /\ calls' = [calls EXCEPT ![slot] = Idle]
    /\ UNCHANGED <<users, requests>>
    /\ UNCHANGED <<accounts, server>>

SendBeginSome ==
    \E sl \in Slots, a \in UserIds, t \in UserIds, s \in StatusParams :
        SendBegin(sl, a, t, s)

ReviewBeginSome ==
    \E sl \in Slots, a \in UserIds, s \in StatusParams, r \in RequestIds :
        ReviewBegin(sl, a, s, r)

SendFindToUserSome == \E sl \in Slots : SendFindToUser(sl)

SendFindExistingSome == \E sl \in Slots : SendFindExisting(sl)

SendSaveSome == \E sl \in Slots : SendSave(sl)

ReviewFindRequestSome == \E sl \in Slots : ReviewFindRequest(sl)

ReviewFindFromUserSome == \E sl \in Slots : ReviewFindFromUser(sl)

ReviewSaveSome == \E sl \in Slots : ReviewSave(sl)

ReleaseSome == \E sl \in Slots : Release(sl)

\* two users have signed up before the requests that interleave arrive
InitConc ==
    /\ users = {1, 2}
    /\ requests = <<>>
    /\ calls = [s \in Slots |-> Idle]
    /\ accounts = SignupHandler(SignupHandler(<<>>))
    /\ server = Listening

NextConc ==
    \/ SendBeginSome
    \/ SendFindToUserSome
    \/ SendFindExistingSome
    \/ SendSaveSome
    \/ ReviewBeginSome
    \/ ReviewFindRequestSome
    \/ ReviewFindFromUserSome
    \/ ReviewSaveSome
    \/ ReleaseSome

SpecConc == InitConc /\ [][NextConc]_vars

---------------------------------------------------------------------------
(* The handlers to their end.  Each slot takes one request and keeps its   *)
(* response; a handler that waits at an await goes on when the awaited     *)
(* query has settled, which the store always does.                         *)

\* GET /user/feed: page, limit and skip are computed before the first await
FeedBegin(slot, actor, qpage, qlimit) ==
    /\ calls[slot].pc = "idle"
    /\ \A t \in Slots : t < slot => calls[t].pc # "idle"
    /\ actor \in users
    /\ calls' = [calls EXCEPT ![slot] =
          [Started("feed", actor, 0, "none", "findRequests")
              EXCEPT !.qpage = qpage, !.qlimit = qlimit]]
    /\ UNCHANGED <<users, requests>>
    /\ UNCHANGED <<accounts, server>>

\* await ConnectionRequest.find({$or: ...}).select("fromUserId toUserId")
FeedFindRequests(slot) ==
    /\ calls[slot].op = "feed"
    /\ calls[slot].pc = "findRequests"
    /\ calls' = [calls EXCEPT ![slot] =
          [calls[slot] EXCEPT !.pc = "findUsers",
              !.rows = SelectSeq(requests,
                                 LAMBDA r : Involves(r, calls[slot].actor))]]
    /\ UNCHANGED <<users, requests>>
    /\ UNCHANGED <<accounts, server>>

\* a second step that builds its exclusion set from no record at all
FeedFindUsersNoRows(slot, order) ==
    /\ calls[slot].op = "feed"
    /\ calls[slot].pc = "findUsers"
    /\ LET c == calls[slot]
           out == FeedFromRecords(users, <<>>, c.actor, c.qpage, c.qlimit, order)
       IN  calls' = [calls EXCEPT ![slot] =
              [Answered(c, out.code, out.error, NoRecord) EXCEPT !.list = out.list]]
    /\ UNCHANGED <<users, requests>>
    /\ UNCHANGED <<accounts, server>>

\* await User.find(...).select().skip().limit(), then the response; a
\* rejected query is answered by the catch
FeedFindUsers(slot, order) ==
    /\ calls[slot].op = "feed"
    /\ calls[slot].pc = "findUsers"
    /\ LET c == calls[slot]
           out == FeedFromRecords(users, c.rows, c.actor, c.qpage, c.qlimit, order)
       IN  calls' = [calls EXCEPT ![slot] =
              [Answered(c, out.code, out.error, NoRecord) EXCEPT !.list = out.list]]
    /\ UNCHANGED <<users, requests>>
    /\ UNCHANGED <<accounts, server>>

\* the requests that arrive: one for each way a handler can end
LiveSends ==
    {<<1, 2, "like">>, <<2, 1, "pass">>, <<1, 1, "like">>, <<1, 0, "like">>,
     <<1, 2, "accept">>}

LiveReviews == {<<2, "accept", 1>>, <<2, "like", 1>>, <<1, "reject", 1>>}

LiveFeeds ==
    {<<1, QueryValue("absent", 0), QueryValue("absent", 0)>>,
     <<2, QueryValue("int", 2), QueryValue("int", -1)>>}

\* the sends in flight that may still save a record
SavingSends ==
    Cardinality({sl \in Slots : calls[sl].op = "send" /\ calls[sl].pc # "done"})

\* a send arrives while the store of the model has room for its record
SendArrives(slot, actor, toUserId, status) ==
    /\ Len(requests) + SavingSends < MaxRequests
    /\ SendBegin(slot, actor, toUserId, status)

SendArrivesSome ==
    \E sl \in Slots, in \in LiveSends : SendArrives(sl, in[1], in[2], in[3])

ReviewArrivesSome ==
    \E sl \in Slots, in \in LiveReviews : ReviewBegin(sl, in[1], in[2], in[3])

FeedBeginSome ==
    \E sl \in Slots, in \in LiveFeeds : FeedBegin(sl, in[1], in[2], in[3])

FeedFindRequestsSome == \E sl \in Slots : FeedFindRequests(sl)

FeedFindUsersSome ==
    \E sl \in Slots, order \in NaturalOrders : FeedFindUsers(sl, order)

\* the next step of the handler in a slot, after the query it awaits
HandlerStep(slot) ==
    \/ SendFindToUser(slot)
    \/ SendFindExisting(slot)
    \/ SendSave(slot)
    \/ ReviewFindRequest(slot)
    \/ ReviewFindFromUser(slot)
    \/ ReviewSave(slot)
    \/ FeedFindRequests(slot)
    \/ \E order \in NaturalOrders : FeedFindUsers(slot, order)

InitLive == InitConc

NextLive ==
    \/ SendArrivesSome
    \/ SendFindToUserSome
    \/ SendFindExistingSome
    \/ SendSaveSome
    \/ ReviewArrivesSome
    \/ ReviewFindRequestSome
    \/ ReviewFindFromUserSome
    \/ ReviewSaveSome
    \/ FeedBeginSome
    \/ FeedFindRequestsSome
    \/ FeedFindUsersSome

\* every awaited query settles, so a waiting handler takes its next step
SpecLive ==
    /\ InitLive
    /\ [][NextLive]_vars
    /\ \A sl \in Slots : WF_vars(HandlerStep(sl))

\* the same handlers with a third user signed up, so that a feed has more
\* than one user to show while a send of its caller is in flight
InitRace ==
    /\ users = {1, 2, 3}
    /\ requests = <<>>
    /\ calls = [s \in Slots |-> Idle]
    /\ accounts = SignupHandler(SignupHandler(SignupHandler(<<>>)))
    /\ server = Listening

SpecRace == InitRace /\ [][NextLive]_vars

---------------------------------------------------------------------------
(* The process from its start, and the routes that change a User document *)

\* the process when node has loaded app.js and is about to call connectDB();
\* uri tells whether MONGODB_URI is set
Starting(uri) == [phase |-> "start", uri |-> uri, db |-> "none", code |-> 0]

InitApp ==
    /\ users = {}
    /\ requests = <<>>
    /\ calls = [s \in Slots |-> Idle]
    /\ accounts = <<>>
    /\ server \in {Starting(uri) : uri \in BOOLEAN}

\* a start-up that falls back on a connection string of its own
ConnectDBHardcoded ==
    /\ server.phase = "start"
    /\ server' = [server EXCEPT !.phase = "connecting"]
    /\ UNCHANGED <<users, requests, calls, accounts>>

\* connectDB() up to its await: it throws when MONGODB_URI is not set, and
\* the catch rethrows
ConnectDB ==
    /\ server.phase = "start"
    /\ server' = [server EXCEPT
                     !.phase = IF server.uri THEN "connecting" ELSE "rejected"]
    /\ UNCHANGED <<users, requests, calls, accounts>>

\* mongoose.connect() resolves: connectDB registers its handlers and returns
ConnectResolves ==
    /\ server.phase = "connecting"
    /\ server' = [server EXCEPT !.phase = "connected", !.db = "connected"]
    /\ UNCHANGED <<users, requests, calls, accounts>>

\* mongoose.connect() rejects: the catch of connectDB rethrows
ConnectRejects ==
    /\ server.phase = "connecting"
    /\ server' = [server EXCEPT !.phase = "rejected", !.db = "failed"]
    /\ UNCHANGED <<users, requests, calls, accounts>>

\* .then(() => app.listen(PORT))
Listen ==
    /\ server.phase = "connected"
    /\ server' = [server EXCEPT !.phase = "listening"]
    /\ UNCHANGED <<users, requests, calls, accounts>>

\* .catch((err) => process.exit(1))
ExitOnFailure ==
    /\ server.phase = "rejected"
    /\ server' = [server EXCEPT !.phase = "exited", !.code = 1]
    /\ UNCHANGED <<users, requests, calls, accounts>>

\* process.on('SIGINT'): the connection is closed and the process exits 0
Sigint ==
    /\ server.phase = "listening"
    /\ server' = [server EXCEPT !.phase = "exited", !.db = "closed", !.code = 0]
    /\ UNCHANGED <<users, requests, calls, accounts>>

NewPassword == <<"P", "a", "s", "s", "#", "1", "w", "d">>

\* what a caller may type as a password: the one of signup, another strong
\* one, a short one, a long one with no symbol, and nothing
PasswordInputs ==
    {SignupPassword, NewPassword, <<"p", "a", "s", "s">>,
     <<"P", "a", "s", "s", "w", "o", "r", "d", "1">>, <<>>}

Noor == <<"N", "o", "o", "r">>

\* the bodies of PATCH /user/:id
ProfileBodies ==
    {[firstName |-> Noor, lastName |-> "Khan", gender |-> "female"],
     [firstName |-> Noor, lastName |-> "Khan", gender |-> "FEMALE",
      age |-> 30, about |-> "hiker"],
     [firstName |-> Noor, lastName |-> "Khan", gender |-> "female", age |-> 17],
     [firstName |-> Noor, lastName |-> "Khan", gender |-> "female", age |-> 90],
     [lastName |-> "Khan", gender |-> "female"],
     [firstName |-> Noor, lastName |-> "Khan", gender |-> "robot"],
     [firstName |-> <<"A", "l">>, lastName |-> "Khan", gender |-> "female"],
     [firstName |-> Noor, lastName |-> "Khan", gender |-> "female",
      password |-> NewPassword],
     [firstName |-> Noor, lastName |-> "Khan", gender |-> "female",
      emailId |-> [local |-> "other", tag |-> 0, domain |-> "trawell.io"]],
     [firstName |-> Noor, lastName |-> "Khan", gender |-> "female", _id |-> 99],
     [password |-> NewPassword]}

PatchProfile(actor, body) ==
    /\ server.phase = "listening"
    /\ actor \in users
    /\ accounts' = ProfileHandler(accounts, actor, body).accounts
    /\ UNCHANGED <<users, requests, calls, server>>

PatchPassword(actor, currentPassword, newPassword, confirmPassword) ==
    /\ server.phase = "listening"
    /\ actor \in users
    /\ accounts' = PasswordHandler(accounts, actor, currentPassword, newPassword,
                                   confirmPassword).accounts
    /\ UNCHANGED <<users, requests, calls, server>>

PatchProfileSome ==
    \E a \in UserIds, body \in ProfileBodies : PatchProfile(a, body)

PatchPasswordSome ==
    \E a \in UserIds, c \in PasswordInputs, n \in PasswordInputs,
       f \in PasswordInputs : PatchPassword(a, c, n, f)

NextApp ==
    \/ ConnectDB
    \/ ConnectResolves
    \/ ConnectRejects
    \/ Listen
    \/ ExitOnFailure
    \/ Sigint
    \/ Signup
    \/ PatchProfileSome
    \/ PatchPasswordSome

SpecApp == InitApp /\ [][NextApp]_vars

---------------------------------------------------------------------------
(* The protected routes behind userAuth.  A request carries the cookie     *)
(* token; slot 1 keeps the last response: the route, the user the handler  *)
(* ran for (0 when it did not run), the status code and the error.         *)

\* req.cookies.token: none, or a token with the _id it was signed for; a
\* token is signed with the secret and in time, signed and past its seven
\* days, or not a token the secret signs
NoToken == [kind |-> "missing", id |-> 0]

TokenKinds == {"valid", "expired", "invalid"}

Tokens ==
    {NoToken} \cup {[kind |-> k, id |-> i] : k \in TokenKinds, i \in 0..(MaxUsers + 1)}

\* a verification that does not look at the expiry of the token
JwtVerifyAnyAge(token) ==
    IF token.kind = "invalid" THEN [threw |-> "JsonWebTokenError", _id |-> 0]
    ELSE [threw |-> "none", _id |-> token.id]

\* jwt.verify(token, secret): the payload, or the error it throws
JwtVerify(token) ==
    IF token.kind = "invalid" THEN [threw |-> "JsonWebTokenError", _id |-> 0]
    ELSE IF token.kind = "expired" THEN [threw |-> "TokenExpiredError", _id |-> 0]
    ELSE [threw |-> "none", _id |-> token.id]

Denied(error) == [next |-> FALSE, code |-> 401, error |-> error, user |-> 0]

\* userAuth(req, res, next): next is called with req.user set, or the
\* request is answered here
UserAuth(usrs, token) ==
    IF token.kind = "missing" THEN Denied("MISSING_TOKEN")
    ELSE LET decodeData == JwtVerify(token)
         IN  IF decodeData.threw = "JsonWebTokenError"
             THEN Denied("INVALID_TOKEN")
             ELSE IF decodeData.threw = "TokenExpiredError"
             THEN Denied("TOKEN_EXPIRED")
             ELSE LET user == FindUserById(usrs, decodeData._id)
                  IN  IF user = 0 THEN Denied("USER_NOT_FOUND")
                      ELSE [next |-> TRUE, code |-> 0, error |-> "none",
                            user |-> user]

\* the response of a route as slot 1 keeps it
Exchange(op, actor, code, error) ==
    Answered(Started(op, actor, 0, "none", "done"), code, error, NoRecord)

\* a request userAuth answers itself: no handler runs
AuthDenies(op, auth) ==
    /\ ~auth.next
    /\ calls' = [calls EXCEPT ![1] = Exchange(op, 0, auth.code, auth.error)]
    /\ UNCHANGED <<users, requests, accounts, server>>

\* POST /request/send/:status/:toUserId, userAuth, handler
AuthSend(token, toUserId, status) ==
    LET auth == UserAuth(users, token)
    IN  \/ AuthDenies("send", auth)
        \/ /\ auth.next
           /\ Len(requests) < MaxRequests
           /\ LET out == SendHandler(requests, users, auth.user, toUserId, status)
              IN  /\ requests' = out.requests
                  /\ calls' = [calls EXCEPT ![1] =
                        Exchange("send", auth.user, out.resp.code, out.resp.error)]
           /\ UNCHANGED <<users, accounts, server>>

\* POST /request/review/:status/:requestId, userAuth, handler
AuthReview(token, status, requestId) ==
    LET auth == UserAuth(users, token)
    IN  \/ AuthDenies("review", auth)
        \/ /\ auth.next
           /\ LET out == ReviewHandler(requests, users, auth.user, status, requestId)
              IN  /\ requests' = out.requests
                  /\ calls' = [calls EXCEPT ![1] =
                        Exchange("review", auth.user, out.resp.code, out.resp.error)]
           /\ UNCHANGED <<users, accounts, server>>

\* GET /user/feed, userAuth, handler
AuthFeed(token, qpage, qlimit, order) ==
    LET auth == UserAuth(users, token)
    IN  \/ AuthDenies("feed", auth)
        \/ /\ auth.next
           /\ LET out == FeedHandler(requests, users, auth.user, qpage, qlimit, order)
              IN  calls' = [calls EXCEPT ![1] =
                     [Exchange("feed", auth.user, out.code, out.error)
                         EXCEPT !.list = out.list]]
           /\ UNCHANGED <<users, requests, accounts, server>>

\* GET /user/connections/pending, userAuth, handler
AuthPending(token, order) ==
    LET auth == UserAuth(users, token)
    IN  \/ AuthDenies("pending", auth)
        \/ /\ auth.next
           /\ LET out == PendingHandler(requests, users, auth.user, order)
              IN  calls' = [calls EXCEPT ![1] =
                     [Exchange("pending", auth.user, out.code, out.error)
                         EXCEPT !.list = out.list]]
           /\ UNCHANGED <<users, requests, accounts, server>>

\* GET /user/connections, userAuth, handler
AuthConnections(token, order) ==
    LET auth == UserAuth(users, token)
    IN  \/ AuthDenies("connections", auth)
        \/ /\ auth.next
           /\ LET out == ConnectionsHandler(requests, users, auth.user, order)
              IN  calls' = [calls EXCEPT ![1] =
                     [Exchange("connections", auth.user, out.code, out.error)
                         EXCEPT !.list = out.list]]
           /\ UNCHANGED <<users, requests, accounts, server>>

\* PATCH /user/password, userAuth, handler
AuthPassword(token, currentPassword, newPassword, confirmPassword) ==
    LET auth == UserAuth(users, token)
    IN  \/ AuthDenies("password", auth)
        \/ /\ auth.next
           /\ LET out == PasswordHandler(accounts, auth.user, currentPassword,
                                         newPassword, confirmPassword)
              IN  /\ accounts' = out.accounts
                  /\ calls' = [calls EXCEPT ![1] =
                        Exchange("password", auth.user, out.resp.code,
                                 out.resp.error)]
           /\ UNCHANGED <<users, requests, server>>

\* PATCH /user/:id, userAuth, handler
AuthProfile(token, body) ==
    LET auth == UserAuth(users, token)
    IN  \/ AuthDenies("profile", auth)
        \/ /\ auth.next
           /\ LET out == ProfileHandler(accounts, auth.user, body)
              IN  /\ accounts' = out.accounts
                  /\ calls' = [calls EXCEPT ![1] =
                        Exchange("profile", auth.user, out.resp.code,
                                 out.resp.error)]
           /\ UNCHANGED <<users, requests, server>>

\* the bodies and passwords the requests behind userAuth carry
AuthBodies ==
    {[firstName |-> Noor, lastName |-> "Khan", gender |-> "female"],
     [firstName |-> Noor, lastName |-> "Khan", gender |-> "robot"]}

AuthPasswords == {SignupPassword, NewPassword}

\* the cookies of the requests: none, a token of each user, one past its
\* time, one the secret did not sign, and one of a user with no document
RequestTokens ==
    {NoToken, [kind |-> "valid", id |-> 1], [kind |-> "valid", id |-> 2],
     [kind |-> "expired", id |-> 1], [kind |-> "invalid", id |-> 0],
     [kind |-> "valid", id |-> MaxUsers + 1]}

AuthSendSome ==
    \E token \in RequestTokens, t \in UserIds, s \in StatusParams : AuthSend(token, t, s)

AuthReviewSome ==
    \E token \in RequestTokens, s \in StatusParams, r \in RequestIds :
        AuthReview(token, s, r)

AuthFeedSome ==
    \E token \in RequestTokens, order \in NaturalOrders :
        AuthFeed(token, QueryValue("absent", 0), QueryValue("absent", 0), order)

AuthPendingSome ==
    \E token \in RequestTokens, order \in NaturalOrders : AuthPending(token, order)

AuthConnectionsSome ==
    \E token \in RequestTokens, order \in NaturalOrders : AuthConnections(token, order)

AuthPasswordSome ==
    \E token \in RequestTokens, c \in AuthPasswords, n \in AuthPasswords :
        AuthPassword(token, c, n, n)

AuthProfileSome ==
    \E token \in RequestTokens, body \in AuthBodies : AuthProfile(token, body)

InitAuth == InitConc

NextAuth ==
    \/ AuthSendSome
    \/ AuthReviewSome
    \/ AuthFeedSome
    \/ AuthPendingSome
    \/ AuthConnectionsSome
    \/ AuthPasswordSome
    \/ AuthProfileSome

SpecAuth == InitAuth /\ [][NextAuth]_vars

---------------------------------------------------------------------------
(* Properties *)

Range(seq) == {seq[i] : i \in 1..Len(seq)}

Pair(r) == {r.fromUserId, r.toUserId}

\* the request ids a caller may name: those of the store and two of no record
NamedRequestIds == 0..(MaxRequests + 1)

SendOf(actor, toUserId, status) ==
    SendHandler(requests, users, actor, toUserId, status)

ReviewOf(actor, status, requestId) ==
    ReviewHandler(requests, users, actor, status, requestId)

FeedOf(actor, qpage, qlimit, order) ==
    FeedHandler(requests, users, actor, qpage, qlimit, order)

ConnectionsOf(actor, order) ==
    Range(ConnectionsHandler(requests, users, actor, order).list)

\* C1: with requests that do not overlap, no two records of the store are
\* about the same unordered pair of users (A->B and B->A never coexist).
OnePerPair ==
    \A i, j \in 1..Len(requests) :
        i # j => Pair(requests[i]) # Pair(requests[j])

\* a record A->B is in the store and a send B->A is answered as a duplicate
OnePerPairWitness ==
    \E i \in 1..Len(requests) :
        /\ Len(requests) < MaxRequests
        /\ SendOf(requests[i].toUserId, requests[i].fromUserId, "like").resp.error
              = "DUPLICATE_REQUEST"

\* C2: of two sends for the same unordered pair that run concurrently at
\* most one creates a record, and the pair never has two records.
AtomicSend ==
    /\ \A s, t \in Slots :
          (/\ s # t
           /\ calls[s].op = "send" /\ calls[t].op = "send"
           /\ calls[s].pc = "done" /\ calls[t].pc = "done"
           /\ {calls[s].actor, calls[s].arg} = {calls[t].actor, calls[t].arg})
          => ~(calls[s].code = 201 /\ calls[t].code = 201)
    /\ \A i, j \in 1..Len(requests) :
          i # j => Pair(requests[i]) # Pair(requests[j])

\* C3: of two reviews of the same record that run concurrently at most one
\* reports success, and the record keeps the decision of the one that did.
AtomicReview ==
    /\ \A s, t \in Slots :
          (/\ s # t
           /\ calls[s].op = "review" /\ calls[t].op = "review"
           /\ calls[s].pc = "done" /\ calls[t].pc = "done"
           /\ calls[s].arg = calls[t].arg)
          => ~(calls[s].code = 200 /\ calls[t].code = 200)
    /\ \A s \in Slots :
          (calls[s].op = "review" /\ calls[s].pc = "done" /\ calls[s].code = 200)
          => requests[calls[s].arg].status = calls[s].status

\* C4: in every step the status of a record changes only from like to accept
\* or from like to reject; a pass, accept or reject record keeps its status,
\* and no record leaves the store.
StatusFlow ==
    [][\A i \in 1..Len(requests) :
          /\ i <= Len(requests')
          /\ requests'[i].status # requests[i].status
                => /\ requests[i].status = "like"
                   /\ requests'[i].status \in ReviewStatuses]_vars

\* C5: once a pair has a record, whatever its status, a send between the two
\* users in either direction, like or pass, is answered DUPLICATE_REQUEST and
\* leaves the store as it is.
DuplicateRefused ==
    \A i \in 1..Len(requests) : \A s \in SendStatuses :
        LET r == requests[i]
            same == SendOf(r.fromUserId, r.toUserId, s)
            back == SendOf(r.toUserId, r.fromUserId, s)
        IN  /\ same.resp.error = "DUPLICATE_REQUEST"
            /\ same.requests = requests
            /\ back.resp.error = "DUPLICATE_REQUEST"
            /\ back.requests = requests

\* a record that has been accepted, whose pair a send could otherwise reach
DuplicateRefusedWitness ==
    /\ Len(requests) < MaxRequests
    /\ \E i \in 1..Len(requests) : requests[i].status = "accept"

\* C6: a send to oneself fails and creates nothing, and no record of the
\* store has the same user at both ends.
NoSelfRequest ==
    /\ \A a \in users : \A s \in StatusParams :
          /\ SendOf(a, a, s).resp.code # 201
          /\ SendOf(a, a, s).requests = requests
    /\ \A i \in 1..Len(requests) :
          requests[i].fromUserId # requests[i].toUserId

\* a user with no record yet, whose send to oneself reaches the save
NoSelfRequestWitness ==
    \E a \in users :
        /\ Len(requests) < MaxRequests
        /\ \A i \in 1..Len(requests) : a \notin Pair(requests[i])
        /\ SendOf(a, a, "like").resp.error = "VALIDATION_ERROR"

\* C7: a review with accept or reject succeeds exactly when the named record
\* exists, is addressed to the caller and has status like; every other such
\* review is answered REQUEST_NOT_FOUND and changes nothing.
ReviewGate ==
    \A a \in users : \A d \in ReviewStatuses : \A id \in NamedRequestIds :
        LET out == ReviewOf(a, d, id)
            reviewable == \E i \in 1..Len(requests) :
                             /\ requests[i].id = id
                             /\ requests[i].toUserId = a
                             /\ requests[i].status = "like"
        IN  IF reviewable
            THEN out.resp.code = 200
            ELSE /\ out.resp.error = "REQUEST_NOT_FOUND"
                 /\ out.requests = requests

\* a pending record whose sender asks to accept it and is refused
ReviewGateWitness ==
    \E i \in 1..Len(requests) :
        /\ requests[i].status = "like"
        /\ requests[i].fromUserId \in users
        /\ ReviewOf(requests[i].fromUserId, "accept", requests[i].id).resp.error
              = "REQUEST_NOT_FOUND"

\* C8: a review, by any user with accept or reject, of a record whose status
\* is accept, reject or pass is answered REQUEST_NOT_FOUND and leaves the
\* record as it is.
TerminalRefused ==
    \A i \in 1..Len(requests) :
        requests[i].status \in {"accept", "reject", "pass"}
        => \A a \in users : \A d \in ReviewStatuses :
              /\ ReviewOf(a, d, requests[i].id).resp.error = "REQUEST_NOT_FOUND"
              /\ ReviewOf(a, d, requests[i].id).requests = requests

\* a rejected record whose recipient now asks to accept it
TerminalRefusedWitness ==
    \E i \in 1..Len(requests) :
        /\ requests[i].status = "reject"
        /\ requests[i].toUserId \in users
        /\ ReviewOf(requests[i].toUserId, "accept", requests[i].id).resp.code = 400

\* C9: the feed of a user holds neither the user nor anyone who shares a
\* record with the user, whatever the record's status and direction.
FeedExcludes ==
    \A a \in users :
        LET partners == UNION {Pair(requests[i]) :
                                  i \in {j \in 1..Len(requests) :
                                             a \in Pair(requests[j])}}
        IN  \A p \in FeedPages : \A l \in FeedLimits : \A o \in NaturalOrders :
                Range(FeedOf(a, p, l, o).list) \cap ({a} \cup partners) = {}

\* a user who received a request and whose feed still offers another user
FeedExcludesWitness ==
    \E a \in users : \E i \in 1..Len(requests) :
        /\ requests[i].toUserId = a
        /\ Range(FeedOf(a, QueryValue("absent", 0), QueryValue("absent", 0),
                        "forward").list) # {}

\* C10: for two different users A and B, B is among the connections of A
\* exactly when a record of the pair {A, B} has status accept; the condition
\* is the same for (A, B) and (B, A), so B is among the connections of A
\* exactly when A is among those of B.
MutualConnections ==
    \A a \in users : \A o \in NaturalOrders :
        LET mine == ConnectionsOf(a, o)
        IN  \A b \in users \ {a} :
                (b \in mine) <=> (\E i \in 1..Len(requests) :
                                     /\ Pair(requests[i]) = {a, b}
                                     /\ requests[i].status = "accept")

\* a like that its recipient accepted: each of the two lists the other
MutualConnectionsWitness ==
    \E i \in 1..Len(requests) :
        /\ requests[i].status = "accept"
        /\ requests[i].toUserId \in ConnectionsOf(requests[i].fromUserId, "forward")
        /\ requests[i].fromUserId \in ConnectionsOf(requests[i].toUserId, "forward")

\* C11: the connections of a user never hold the user: of every accepted
\* record the list carries the other end, and no record has one user at both
\* ends.
NeverOwnConnection ==
    \A a \in users : \A o \in NaturalOrders : a \notin ConnectionsOf(a, o)

\* a user who sent a like that was accepted and who has a connection
NeverOwnConnectionWitness ==
    \E i \in 1..Len(requests) :
        /\ requests[i].status = "accept"
        /\ ConnectionsOf(requests[i].fromUserId, "forward") = {requests[i].toUserId}

\* C12: the limit of the feed is clamped to 1..50: the limit the response
\* echoes is between 1 and 50, a requested limit above 50 is answered as a
\* limit of 50, and a requested limit of 0 or below is answered as the
\* default limit of 10.
LimitClamped ==
    \A a \in users : \A p \in FeedPages : \A l \in LimitQueries :
      \A o \in NaturalOrders :
        LET out == FeedOf(a, p, l, o)
        IN  /\ out.code = 200 => out.limit \in 1..MaxLimit
            /\ (l.kind = "int" /\ l.n > MaxLimit)
                  => out = FeedOf(a, p, QueryValue("int", MaxLimit), o)
            /\ (l.kind = "int" /\ l.n <= 0)
                  => out = FeedOf(a, p, QueryValue("int", DefaultLimit), o)

\* C13: a query asked twice in one state of the store, with the same caller
\* and the same page and limit, gets the same answer both times: the pending
\* list, the connections, and the feed with the same users in the same order.
QueriesRepeat ==
    \A a \in users : \A first \in NaturalOrders : \A second \in NaturalOrders :
        /\ PendingHandler(requests, users, a, first)
              = PendingHandler(requests, users, a, second)
        /\ ConnectionsHandler(requests, users, a, first)
              = ConnectionsHandler(requests, users, a, second)
        /\ \A p \in FeedPages : \A l \in FeedLimits :
              FeedOf(a, p, l, first) = FeedOf(a, p, l, second)

\* C14: in every reachable state, a send that succeeds adds exactly one record, from the caller to the
\* target with the status sent, and leaves every record already in the store
\* as it was; the step of a send leaves the users as they were.
SendEffect ==
    [](\A a \in users : \A t \in users : \A s \in SendStatuses :
        LET out == SendOf(a, t, s)
        IN  out.resp.code = 201
            => /\ Len(out.requests) = Len(requests) + 1
               /\ SubSeq(out.requests, 1, Len(requests)) = requests
               /\ out.requests[Len(out.requests)].fromUserId = a
               /\ out.requests[Len(out.requests)].toUserId = t
               /\ out.requests[Len(out.requests)].status = s
               /\ out.resp.data = out.requests[Len(out.requests)])

\* a store with a record and room for a second, which a send then adds
SendEffectWitness ==
    /\ Len(requests) = 1
    /\ \E a \in users : \E t \in users : SendOf(a, t, "pass").resp.code = 201

\* C15: in every reachable state, a review that succeeds sets the status of the named record to the
\* decision and changes nothing else: the record keeps its id and its two
\* ends, no record is added or removed, every other record stays as it was.
ReviewEffect ==
    [](\A a \in users : \A d \in {"accept", "reject"} : \A id \in RequestIds :
        LET out == ReviewOf(a, d, id)
        IN  out.resp.code = 200
            => /\ Len(out.requests) = Len(requests)
               /\ \A i \in 1..Len(requests) :
                     out.requests[i] =
                        IF requests[i].id = id
                        THEN [id |-> id,
                              fromUserId |-> requests[i].fromUserId,
                              toUserId |-> requests[i].toUserId,
                              status |-> d]
                        ELSE requests[i])

\* two pending records, one of which its recipient may now accept
ReviewEffectWitness ==
    /\ Len(requests) = 2
    /\ requests[1].status = "like"
    /\ requests[2].status = "like"
    /\ ReviewOf(requests[2].toUserId, "accept", 2).resp.code = 200

PendingOf(actor, order) ==
    Range(PendingHandler(requests, users, actor, order).list)

\* C16: in every reachable state, a send whose status is neither like nor pass is answered 400 with
\* the invalid-status message, and a send of like or pass to a user id that
\* names no user is answered 404 USER_NOT_FOUND; both leave the store as it
\* is.
SendRefused ==
    [](\A a \in users :
        /\ \A t \in UserIds : \A s \in {"accept", "reject"} :
              LET out == SendOf(a, t, s)
              IN  /\ out.resp.code = 400
                  /\ out.resp.error = SendInvalidStatus
                  /\ out.requests = requests
        /\ \A t \in UserIds \ users : \A s \in {"like", "pass"} :
              LET out == SendOf(a, t, s)
              IN  /\ out.resp.code = 404
                  /\ out.resp.error = "USER_NOT_FOUND"
                  /\ out.requests = requests)

\* a user who sends a like to an id no user has, with room in the store
SendRefusedWitness ==
    /\ Len(requests) < MaxRequests
    /\ \E a \in users : \E t \in UserIds \ users :
          /\ SendOf(a, t, "like").resp.error = "USER_NOT_FOUND"
          /\ SendOf(a, a, "accept").resp.error = SendInvalidStatus

\* C17: in every reachable state, a review whose status is neither accept nor reject, like and pass
\* included, is answered INVALID_STATUS and leaves every record as it is,
\* also when the named record is a like addressed to the caller.
ReviewRefused ==
    [](\A a \in users : \A s \in {"like", "pass"} : \A id \in NamedRequestIds :
        LET out == ReviewOf(a, s, id)
        IN  /\ out.resp.code = 400
            /\ out.resp.error = "INVALID_STATUS"
            /\ out.requests = requests)

\* a pending record whose recipient reviews it with like
ReviewRefusedWitness ==
    \E i \in 1..Len(requests) :
        /\ requests[i].status = "like"
        /\ requests[i].toUserId \in users
        /\ ReviewOf(requests[i].toUserId, "like", requests[i].id).resp.error
              = "INVALID_STATUS"

\* C18: the pending list of a user holds exactly the records addressed to
\* the user whose status is like: no pass record, no record the recipient
\* has reviewed, and no record in the list of its sender.
PendingExact ==
    \A a \in users : \A o \in NaturalOrders :
        LET mine == PendingOf(a, o)
        IN  /\ mine = {requests[i].id : i \in {j \in 1..Len(requests) :
                          requests[j].toUserId = a /\ requests[j].status = "like"}}
            /\ \A i \in 1..Len(requests) :
                  /\ requests[i].status # "like" => requests[i].id \notin mine
                  /\ requests[i].fromUserId = a => requests[i].id \notin mine

\* a like in the list of its recipient next to a pass the recipient never sees
PendingExactWitness ==
    /\ Len(requests) = 2
    /\ requests[1].status = "like"
    /\ requests[2].status = "pass"
    /\ PendingOf(requests[1].toUserId, "forward") = {1}
    /\ PendingOf(requests[2].toUserId, "forward") \subseteq {1}

\* the records of the unordered pair {a, b} whose status is accept
AcceptedOf(a, b) ==
    {i \in 1..Len(requests) :
        Pair(requests[i]) = {a, b} /\ requests[i].status = "accept"}

\* C19: every pair of users has no or one record with status accept, and
\* each of the two is among the connections of the other exactly when the
\* pair has one.
AcceptedOnce ==
    \A a \in users : \A b \in users \ {a} :
        /\ Cardinality(AcceptedOf(a, b)) \in {0, 1}
        /\ \A o \in NaturalOrders :
              (b \in ConnectionsOf(a, o) /\ a \in ConnectionsOf(b, o))
                 <=> Cardinality(AcceptedOf(a, b)) = 1

\* C20: no step removes a record or changes the id or the two ends of one:
\* every record of the store is in the store after the step, with the same
\* id, fromUserId and toUserId.
RecordsKept ==
    [][\A i \in 1..Len(requests) :
          /\ i <= Len(requests')
          /\ requests'[i].id = requests[i].id
          /\ requests'[i].fromUserId = requests[i].fromUserId
          /\ requests'[i].toUserId = requests[i].toUserId]_vars

\* a store of two records, the first of which has been reviewed
RecordsKeptWitness ==
    /\ Len(requests) = 2
    /\ requests[1].status \in {"accept", "reject"}
    /\ requests[1].id = 1
    /\ requests[2].id = 2

\* C21: in every reachable state, a review with accept or reject that finds
\* no reviewable record gets one and the same answer, fixed by the caller,
\* the request id and the decision alone: the answer is the same when no
\* record has the id, when the record is addressed to another user and when
\* its status is not like.
ReviewSilent ==
    [](\A a \in users : \A d \in {"accept", "reject"} : \A id \in NamedRequestIds :
        LET reviewable == \E i \in 1..Len(requests) :
                             /\ requests[i].id = id
                             /\ requests[i].toUserId = a
                             /\ requests[i].status = "like"
        IN  ~reviewable
            => ReviewOf(a, d, id).resp
                  = [op |-> "review", actor |-> a, arg |-> id, status |-> d,
                     code |-> 400, error |-> "REQUEST_NOT_FOUND",
                     data |-> NoRecord, list |-> <<>>, page |-> 0, limit |-> 0,
                     total |-> 0])

\* one caller and the three cases side by side: a like addressed to another
\* user, an own record that is decided, and an id of no record
ReviewSilentWitness ==
    /\ Len(requests) = 2
    /\ \E a \in users :
          /\ requests[1].toUserId # a /\ requests[1].status = "like"
          /\ requests[2].toUserId = a /\ requests[2].status # "like"
          /\ \A id \in 1..3 :
                ReviewOf(a, "accept", id).resp.error = "REQUEST_NOT_FOUND"

\* C22: a step of pendingFor, of connectionsFor or of getFeed leaves the set
\* of users and the sequence of connection requests as they were: the three
\* queries create, change and delete nothing.
QueriesReadOnly ==
    [][(GetFeedSome \/ GetPendingSome \/ GetConnectionsSome)
          => /\ users' = users
             /\ requests' = requests]_vars

\* a store in which each of the three queries has something to return
QueriesReadOnlyWitness ==
    /\ \E a \in users : PendingHandler(requests, users, a, "forward").list # <<>>
    /\ \E a \in users : ConnectionsOf(a, "forward") # {}
    /\ \E a \in users :
          FeedOf(a, QueryValue("absent", 0), QueryValue("absent", 0),
                 "forward").list # <<>>
    /\ \E i \in 1..Len(requests) : requests[i].status = "like"

\* C24: with three users A, B, C, a like r1 of A to B and a pass r2 of A to C:
\* no page of the feed of A holds B or C; and when B then accepts r1, the
\* status of r1 is accept, the connections of A are exactly B, those of B are
\* exactly A, and r1 is in the pending list of neither.
ScenarioLikePass(A, B, C) ==
    /\ {A, B, C} \subseteq users
    /\ A # B /\ A # C /\ B # C
    /\ requests = <<[id |-> 1, fromUserId |-> A, toUserId |-> B, status |-> "like"],
                    [id |-> 2, fromUserId |-> A, toUserId |-> C, status |-> "pass"]>>

LikePassScenario ==
    \A A \in UserIds, B \in UserIds, C \in UserIds :
        ScenarioLikePass(A, B, C)
        => LET out == ReviewOf(B, "accept", 1)
               after == out.requests
           IN  /\ \A qpage \in FeedPages, qlimit \in FeedLimits,
                     order \in NaturalOrders :
                       Range(FeedOf(A, qpage, qlimit, order).list) \cap {B, C} = {}
               /\ out.resp.code = 200
               /\ Len(after) = 2
               /\ after[1] = [requests[1] EXCEPT !.status = "accept"]
               /\ after[2] = requests[2]
               /\ \A order \in NaturalOrders :
                     /\ ConnectionsHandler(after, users, A, order).list = <<B>>
                     /\ ConnectionsHandler(after, users, B, order).list = <<A>>
                     /\ 1 \notin Range(PendingHandler(after, users, A, order).list)
                     /\ 1 \notin Range(PendingHandler(after, users, B, order).list)

\* the scenario's store, in which r1 is still pending for B and the feed of
\* A would have had somebody to show
LikePassScenarioWitness ==
    \E A \in UserIds, B \in UserIds, C \in UserIds :
        /\ ScenarioLikePass(A, B, C)
        /\ 1 \in Range(PendingHandler(requests, users, B, "forward").list)
        /\ ReviewOf(B, "accept", 1).resp.code = 200

\* C26: a feed that is answered echoes the page and the limit it used and
\* reports as count the number of users of this page; the count is at most
\* the echoed limit, and it is not the size of the rest of the pool when
\* more candidates are left than the limit allows.
FeedCount ==
    \A a \in users : \A p \in FeedPages : \A l \in FeedLimits :
      \A o \in NaturalOrders :
        LET out == FeedOf(a, p, l, o)
            pool == FeedCandidates(users, a,
                        HideUserFromFeed(SelectSeq(requests,
                                                   LAMBDA r : Involves(r, a))),
                        o)
            rest == Len(pool) - FeedSkip(p, l)
        IN  out.code = 200
            => /\ out.page = FeedPage(p)
               /\ out.limit = FeedLimit(l)
               /\ out.total = Len(out.list)
               /\ out.total <= out.limit
               /\ rest > out.limit => out.total # rest

\* C30: send checks in a fixed order.  The handler is asked in the store of
\* the state and in the same store without the target's document (a record
\* of the pair may then be there while the target is not): a status that is
\* neither like nor pass gets the invalid-status answer whether or not the
\* target exists; with a valid status a missing target gets USER_NOT_FOUND
\* whether or not the pair has a record; and DUPLICATE_REQUEST is answered
\* only with a valid status and an existing target.
NamedUserIds == 0..(MaxUsers + 1)

SendCheckOrder ==
    [](\A a \in users : \A t \in NamedUserIds : \A s \in StatusParams :
         \A usrs \in {users, users \ {t}} :
            LET out == SendHandler(requests, usrs, a, t, s).resp
            IN  /\ s \notin {"like", "pass"}
                     => out.code = 400 /\ out.error = SendInvalidStatus
                /\ (s \in {"like", "pass"} /\ t \notin usrs)
                     => out.code = 404 /\ out.error = "USER_NOT_FOUND"
                /\ out.error = "DUPLICATE_REQUEST"
                     => s \in {"like", "pass"} /\ t \in usrs)

\* a pair with a record: the sender is told of the duplicate while the
\* target is there and of the missing target once it is not, and an invalid
\* status is told first in both
SendCheckOrderWitness ==
    \E i \in 1..Len(requests) :
        LET a == requests[i].fromUserId
            t == requests[i].toUserId
        IN  /\ SendOf(a, t, "like").resp.error = "DUPLICATE_REQUEST"
            /\ SendHandler(requests, users \ {t}, a, t, "like").resp.error
                  = "USER_NOT_FOUND"
            /\ SendHandler(requests, users \ {t}, a, t, "accept").resp.error
                  = SendInvalidStatus

\* C25: whatever send, review, the pending list, the connections and the
\* feed answer, each user in the answer is shown by paths among firstName,
\* lastName, age, gender, image, about and _id, each path holds the stored
\* value of that same path, and no path is the password or holds it.
PublicFields == {"firstName", "lastName", "age", "gender", "image", "about"}

Answers(a) ==
    {SendOf(a, t, s) : t \in UserIds, s \in StatusParams}
    \cup {ReviewOf(a, s, id) : s \in StatusParams, id \in RequestIds}
    \cup {Outcome(requests, FeedOf(a, QueryValue(k[1], k[2]),
                                   QueryValue("absent", 0), o)) :
             k \in {<<"absent", 0>>, <<"int", 2>>}, o \in NaturalOrders}
    \cup {Outcome(requests, PendingHandler(requests, users, a, o)) :
             o \in NaturalOrders}
    \cup {Outcome(requests, ConnectionsHandler(requests, users, a, o)) :
             o \in NaturalOrders}

NoCredentials ==
    [](\A a \in users : \A out \in Answers(a) :
         \A d \in UserData(out.requests, out.resp) :
            /\ DOMAIN d \subseteq PublicFields \cup {"_id"}
            /\ "password" \notin DOMAIN d
            /\ \A f \in DOMAIN d : d[f][1] = f)

\* a store from which the pending list, the connections and the feed each
\* show somebody
NoCredentialsWitness ==
    \E a \in users, b \in users, c \in users :
        /\ UserData(requests, PendingHandler(requests, users, a, "forward")) # {}
        /\ UserData(requests, ConnectionsHandler(requests, users, b, "forward")) # {}
        /\ UserData(requests, FeedOf(c, QueryValue("absent", 0),
                                     QueryValue("absent", 0), "forward")) # {}
        /\ \E id \in RequestIds :
              UserData(ReviewOf(a, "accept", id).requests,
                       ReviewOf(a, "accept", id).resp) # {}

\* C27: a profile update leaves every path of the caller's document outside
\* firstName, lastName, gender, image, age and about as it was, and every
\* other document as it was; a body with any other key is answered 400 and
\* changes no document at all; and no step of the program changes the _id
\* or the emailId of a user or takes a user away.
ProfileFields == {"firstName", "lastName", "gender", "image", "age", "about"}

ProfileFrame ==
    /\ [](\A a \in users : \A body \in ProfileBodies :
            LET out == ProfileHandler(accounts, a, body)
            IN  /\ DOMAIN out.accounts = DOMAIN accounts
                /\ \A u \in users \ {a} : out.accounts[u] = accounts[u]
                /\ \A key \in DOMAIN accounts[a] \ ProfileFields :
                      out.accounts[a][key] = accounts[a][key]
                /\ ~(DOMAIN body \subseteq ProfileFields)
                      => out.accounts = accounts /\ out.resp.code = 400)
    /\ [][\A u \in users :
             /\ u \in users'
             /\ accounts'[u]._id = accounts[u]._id
             /\ accounts'[u].emailId = accounts[u].emailId]_vars

\* a user whose profile an update has changed, and whose next update would
\* be refused for the password it carries
ProfileFrameWitness ==
    \E a \in users :
        /\ accounts[a].firstName = Noor
        /\ accounts[a].gender = "female"
        /\ accounts[a].about = "hiker"
        /\ ProfileHandler(accounts, a,
                          [firstName |-> Noor, lastName |-> "Khan",
                           gender |-> "female", password |-> NewPassword]).resp.code
              = 400

\* C28: the password update stores the new password (hashed) and answers 200
\* exactly when the current password typed is the one stored, the new one
\* equals its confirmation and the new one is strong; in every other case it
\* answers 400 and no document changes.
StrongPasswords == {SignupPassword, NewPassword}

PasswordGate ==
    [](\A a \in users : \A c \in PasswordInputs : \A n \in PasswordInputs :
         \A f \in PasswordInputs :
            LET out == PasswordHandler(accounts, a, c, n, f)
                ok == /\ accounts[a].password = [bcrypt |-> c]
                      /\ n = f
                      /\ n \in StrongPasswords
            IN  /\ ok => /\ out.resp.code = 200
                         /\ out.accounts =
                               [accounts EXCEPT ![a].password = [bcrypt |-> n]]
                /\ ~ok => /\ out.resp.code = 400
                          /\ out.accounts = accounts)

\* a user who has changed the password, so that the one of signup is now the
\* wrong current password
PasswordGateWitness ==
    \E a \in users :
        /\ accounts[a].password = [bcrypt |-> NewPassword]
        /\ PasswordHandler(accounts, a, SignupPassword, NewPassword,
                           NewPassword).resp.code = 400
        /\ PasswordHandler(accounts, a, NewPassword, SignupPassword,
                           SignupPassword).resp.code = 200

\* C29: the process listens only with the database connected; once
\* MONGODB_URI was found unset or the connection has failed it never listens,
\* its only step is to exit, and it exits with code 1.
StartOrder ==
    /\ [](/\ server.phase = "listening" => server.db = "connected" /\ server.uri
          /\ (server.db = "failed" \/ ~server.uri)
                => /\ server.phase # "listening"
                   /\ server.phase = "exited" => server.code = 1)
    /\ [][/\ server'.phase = "listening" => server.db = "connected"
          /\ server.db = "failed" => server'.db = "failed"
          /\ server'.uri = server.uri
          /\ server.phase = "rejected"
                => server'.phase = "exited" /\ server'.code = 1
          /\ server.phase = "exited" => server'.phase = "exited"]_vars

\* the process has exited with code 1 after its connection was rejected
StartOrderWitness ==
    /\ server.phase = "exited"
    /\ server.db = "failed"
    /\ server.code = 1

\* C23: every send, review and feed that has started ends with a response,
\* and with one only: a handler in flight reaches its response, the response
\* is a success or a failure with its error named, and a slot that has
\* answered keeps that answer for good.
InFlight(sl) == calls[sl].pc \notin {"idle", "done"}

OneOutcome(c) ==
    \/ c.op = "send" /\ c.code = 201 /\ c.error = "none" /\ c.doc # NoRecord
    \/ c.op = "send" /\ c.code \in {400, 404} /\ c.error # "none"
    \/ c.op = "review" /\ c.code = 200 /\ c.error = "none" /\ c.doc # NoRecord
    \/ c.op = "review" /\ c.code = 400 /\ c.error # "none"
    \/ c.op = "feed" /\ c.code = 200 /\ c.error = "none"
    \/ c.op = "feed" /\ c.code = 500 /\ c.error # "none"

HandlersComplete ==
    /\ \A sl \in Slots : InFlight(sl) ~> (calls[sl].pc = "done")
    /\ [](\A sl \in Slots :
            /\ calls[sl].pc = "done" => OneOutcome(calls[sl])
            /\ calls[sl].pc # "done" => calls[sl].code = 0)
    /\ [][\A sl \in Slots :
             calls[sl].pc = "done" => calls'[sl] = calls[sl]]_vars

\* two handlers have run side by side to their responses, one a success
\* and one a failure
HandlersCompleteWitness ==
    /\ \A sl \in Slots : calls[sl].pc = "done"
    /\ \E sl \in Slots : calls[sl].op = "send" /\ calls[sl].code = 201
    /\ \E sl \in Slots : calls[sl].code \in {400, 404, 500}

\* C31: a send or a review that reports a failure has written nothing.  The
\* handlers are asked in the store of the state and in that store with one
\* user's document taken out (the account was deleted after its requests
\* were recorded): whenever the answer is not 201 for send or 200 for review,
\* the records after the call are the records before it.
UserStores == {users} \cup {users \ {u} : u \in users}

FailureWritesNothing ==
    \A usrs \in UserStores : \A a \in usrs :
        /\ \A t \in NamedUserIds : \A s \in StatusParams :
              LET out == SendHandler(requests, usrs, a, t, s)
              IN  out.resp.code # 201 => out.requests = requests
        /\ \A s \in StatusParams : \A id \in NamedRequestIds :
              LET out == ReviewHandler(requests, usrs, a, s, id)
              IN  out.resp.code # 200 => out.requests = requests

\* C32: a pair of users that has a record with status pass or reject never
\* gets a record with status accept: no step leads from a state in which a
\* record of the pair is passed or rejected to a state in which a record of
\* the same pair is accepted.
RefusalIsFinal ==
    [][\A i \in 1..Len(requests) :
          requests[i].status \in {"pass", "reject"}
          => \A j \in 1..Len(requests') :
                Pair(requests'[j]) = Pair(requests[i])
                => requests'[j].status # "accept"]_vars

\* C33: the feed is asked with the default page and limit, which in the
\* model returns every candidate.  For two different users A and B, B is
\* missing from the feed of A exactly when A is missing from the feed of B;
\* a user missing from the feed of A is in the exclusion set of A, and the
\* feed of A holds no user of that set; and no step of the program takes a
\* user out of the exclusion set of A.
FeedPool(a) ==
    Range(FeedOf(a, QueryValue("absent", 0), QueryValue("absent", 0),
                 "forward").list)

Hidden(a) == HideUserFromFeed(SelectSeq(requests, LAMBDA r : Involves(r, a)))

FeedExclusion ==
    /\ [](LET pool == [a \in users |-> FeedPool(a)]
          IN  \A a \in users :
                 /\ \A b \in users \ {a} :
                       /\ b \notin pool[a] <=> a \notin pool[b]
                       /\ b \notin pool[a] => b \in Hidden(a)
                 /\ pool[a] \cap Hidden(a) = {})
    /\ [][<<users, requests>>' # <<users, requests>>
             => \A a \in users : Hidden(a) \subseteq Hidden(a)']_vars

\* a pair that a record has taken out of each other's feed, which still
\* shows a third user to one of them
FeedExclusionWitness ==
    \E a \in users : \E b \in users \ {a} : \E c \in users \ {a, b} :
        /\ \E i \in 1..Len(requests) : Pair(requests[i]) = {a, b}
        /\ b \notin FeedPool(a)
        /\ a \notin FeedPool(b)
        /\ c \in FeedPool(a)

\* C34: the exclusion set of the code holds both ends of every record that
\* involves the caller, the caller's own id with them; the specification
\* excludes the caller and the other end of each such record.  For every
\* reachable store and every caller the two give the same feed: the code's
\* set without the caller is the specification's set, and the page the code
\* answers is the page cut, with the same skip, limit and row order, from
\* the users the specification leaves in.
SpecExclusion(a) ==
    {IF requests[i].fromUserId = a THEN requests[i].toUserId
                                   ELSE requests[i].fromUserId :
        i \in {j \in 1..Len(requests) : a \in Pair(requests[j])}}

SpecFeed(a, qpage, qlimit, order) ==
    LET left == {u \in users : u # a /\ u \notin SpecExclusion(a)}
        rows == IF order = "forward" THEN SortedIds(left)
                                     ELSE Reversed(SortedIds(left))
        skip == (FeedPage(qpage) - 1) * FeedLimit(qlimit)
    IN  SubSeq(rows, skip + 1, Min(Len(rows), skip + Abs(FeedLimit(qlimit))))

FeedRefinesSpec ==
    [](\A a \in users :
         /\ Hidden(a) \ {a} = SpecExclusion(a)
         /\ Hidden(a) # {} => a \in Hidden(a)
         /\ \A p \in FeedPages :
              \A l \in {QueryValue("absent", 0), QueryValue("int", 1)} :
               \A o \in NaturalOrders :
                  LET out == FeedOf(a, p, l, o)
                  IN  /\ out.code = 200
                      /\ out.list = SpecFeed(a, p, l, o))

\* a caller whose own id is in the exclusion set of the code and whose feed
\* still has somebody to show
FeedRefinesSpecWitness ==
    \E a \in users :
        /\ a \in Hidden(a)
        /\ SpecExclusion(a) # {}
        /\ FeedPool(a) # {}

\* C35: with no write in between and a fixed limit, the pages of the feed
\* split the users the caller may see: two pages with different numbers
\* share no user, and the pages 1, 2, ... together hold exactly the users
\* that are neither the caller nor in the exclusion set.  Each page is a
\* query of its own, so each gets the row order the store gives that query.
PartitionPages == 1..(MaxUsers + 1)

PageOf(a, n, limit, order) ==
    Range(FeedOf(a, QueryValue("int", n), QueryValue("int", limit), order).list)

PagesPartition ==
    \A a \in users : \A limit \in 1..2 :
      \A order \in [PartitionPages -> NaturalOrders] :
        /\ \A m, n \in PartitionPages :
              m # n => PageOf(a, m, limit, order[m])
                          \cap PageOf(a, n, limit, order[n]) = {}
        /\ UNION {PageOf(a, n, limit, order[n]) : n \in PartitionPages}
              = {u \in users : u # a /\ u \notin Hidden(a)}

\* the same statement for a store that answers every query in one order
PagesPartitionOneOrder ==
    \A a \in users : \A limit \in 1..2 : \A o \in NaturalOrders :
        /\ \A m, n \in PartitionPages :
              m # n => PageOf(a, m, limit, o) \cap PageOf(a, n, limit, o) = {}
        /\ UNION {PageOf(a, n, limit, o) : n \in PartitionPages}
              = {u \in users : u # a /\ u \notin Hidden(a)}

\* C36: for every value of ?page= and ?limit= a caller can send (0, a
\* negative number and a text that is no number with them), the page the
\* feed works with is at least 1, the offset (page - 1) * limit it hands to
\* the store is not negative, and the store takes the query.
OffsetNatural ==
    \A a \in users : \A p \in PageQueries : \A l \in LimitQueries :
        /\ FeedPage(p) >= 1
        /\ FeedSkip(p, l) >= 0
        /\ FeedOf(a, p, l, "forward").code = 200

\* the same statement for the pages and limits that are not negative
OffsetNaturalFromZero ==
    \A a \in users : \A p \in PageQueries : \A l \in LimitQueries :
        (p.n >= 0 /\ l.n >= 0)
        => /\ FeedPage(p) >= 1
           /\ FeedSkip(p, l) >= 0
           /\ FeedOf(a, p, l, "forward").code = 200

\* C37: the feed reads the records of its caller and then the users, in two
\* steps, and a send may save a record of the caller between the two.  The
\* first step takes every record of the caller the store holds at that
\* moment; no step of any handler removes a user from the set of those the
\* caller has a record with, so that set at the start of the feed is within
\* the one the first step read; the second step answers a list without any
\* user of the records the first step read, without the caller, and with no
\* user twice, whatever was saved in between.
NoDuplicates(list) ==
    \A i, j \in 1..Len(list) : i # j => list[i] # list[j]

Admitted(token) == token.kind = "valid" /\ token.id \in users

ChangedRequests ==
    {i \in 1..Len(requests') : i > Len(requests) \/ requests'[i] # requests[i]}

ChangedAccounts ==
    {i \in 1..Len(accounts') : i > Len(accounts) \/ accounts'[i] # accounts[i]}

AuthGate ==
    /\ [](\A token \in Tokens :
            LET auth == UserAuth(users, token)
            IN  IF Admitted(token)
                THEN (auth.next /\ auth.user = token.id)
                ELSE (~auth.next /\ auth.code = 401 /\ auth.user = 0))
    /\ [](calls[1].pc = "done"
             => IF calls[1].code = 401 THEN calls[1].actor = 0
                                       ELSE calls[1].actor \in users)
    /\ [][(calls'[1].code = 401) => UNCHANGED <<users, requests, accounts>>]_vars
    /\ [][\A i \in ChangedRequests :
              \/ (calls'[1].op = "send"
                    /\ requests'[i].fromUserId = calls'[1].actor)
              \/ (calls'[1].op = "review"
                    /\ requests'[i].toUserId = calls'[1].actor)]_vars
    /\ [][\A u \in ChangedAccounts :
              (calls'[1].op \in {"password", "profile"}
                 /\ u = calls'[1].actor)]_vars

\* a request was answered 401 in a store that holds a record and a changed
\* document, both written by handlers that ran for the user of their token
AuthGateWitness ==
    /\ calls[1].pc = "done"
    /\ calls[1].code = 401
    /\ calls[1].error = "USER_NOT_FOUND"
    /\ Len(requests) > 0
    /\ accounts # SignupHandler(SignupHandler(<<>>))

===========================================================================
